---- MODULE Spec2Model ----
(***************************************************************************)
(* A model of the runtime core of rusty_scheme:                            *)
(*   - the bytecode verifier       src/src/bytecode.rs  verify_bytecodes   *)
(*   - bytecode object allocation  src/src/bytecode.rs  allocate_bytecode  *)
(*   - the tagged value accessors  src/src/value.rs     impl Value         *)
(*                                                                         *)
(* Three specifications share the module: SpecVerify, SpecValue and        *)
(* SpecAlloc.  Each one drives one component and leaves the variables of   *)
(* the other components at their idle values.                              *)
(***************************************************************************)
EXTENDS Integers, Sequences, FiniteSets, TLC

VARIABLES
    \* ---- verify_bytecodes ----
    b,                  \* the instructions the iterator has yielded so far
    argcount,           \* parameter argcount (widened to usize)
    environment_length, \* parameter environment_length
    i,                  \* local `i`
    current_depth,      \* local `current_depth`
    operand_pending,    \* TRUE after the Vector arm, until iter.next() is consumed
    result,             \* Running, Ok or the BadByteCode returned
    \* ---- the heap shared by value.rs and allocate_bytecode ----
    mem,                \* byte-addressed memory: address -> 0..255, or Uninit
    \* ---- value.rs ----
    vec_len,            \* element count the vector-family object was built with
    nwrites,            \* number of mutating accessor calls made so far
    ret,                \* outcome of the last accessor call
    \* ---- allocate_bytecode ----
    stack,              \* heap.stack
    free,               \* next free heap address handed out by alloc_raw
    call                \* record of the last allocate_bytecode call

vars == <<b, argcount, environment_length, i, current_depth, operand_pending,
          result, mem, vec_len, nwrites, ret, stack, free, call>>

verify_vars == <<b, argcount, environment_length, i, current_depth,
                 operand_pending, result>>
value_vars  == <<vec_len, nwrites, ret>>
alloc_vars  == <<stack, free, call>>

(***************************************************************************)
(* Bounds of the model.                                                    *)
(***************************************************************************)
MaxLen      == 3    \* longest instruction sequence fed to the verifier
MaxOperand  == 2    \* largest value of an operand byte (u8 in the code)
MaxArgcount == 1    \* largest declared argument count
MaxEnvLen   == 1    \* largest declared environment length
MaxVecLen   == 2    \* largest element count of the vector-family object
MaxIndex    == 9    \* largest index passed to array_get / array_set
MaxWrites   == 1    \* mutating accessor calls per behaviour
MaxCode     == 9    \* longest code slice passed to allocate_bytecode
MaxStack    == 2    \* deepest value stack
MaxAllocs   == 1    \* heap room, in bytecode objects of the largest size

(***************************************************************************)
(* Machine words.  src/src/value.rs is built for a 64-bit target           *)
(* (SIZEOF_PTR = 8).  A word is the sequence of its SIZEOF_PTR bytes,      *)
(* least significant first, so that no integer of the model exceeds the    *)
(* range of the model checker; memory is byte addressed.                   *)
(***************************************************************************)
SIZEOF_PTR == 8

Byte == 0 .. 255

RECURSIVE ByteOf(_, _)
ByteOf(n, j) == IF j = 0 THEN n % 256 ELSE ByteOf(n \div 256, j - 1)

\* The word holding the natural number n.
Word(n) == [j \in 1 .. SIZEOF_PTR |-> ByteOf(n, j - 1)]

\* The number held by a word that is known to be below 2^24 (an address, a
\* length or a count of the model).
ToInt(w) == w[1] + 256 * w[2] + 65536 * w[3]

\* w >= n, for a natural number n below 2^24 (usize comparison).
WordGE(w, n) == (\E j \in 4 .. SIZEOF_PTR : w[j] # 0) \/ ToInt(w) >= n

\* w >> 2 and w << 2 on usize.
Shr2(w) == [j \in 1 .. SIZEOF_PTR |->
              (w[j] \div 4) + (IF j < SIZEOF_PTR THEN (w[j + 1] % 4) * 64 ELSE 0)]
Shl2(w) == [j \in 1 .. SIZEOF_PTR |->
              ((w[j] * 4) % 256) + (IF j > 1 THEN w[j - 1] \div 64 ELSE 0)]

ReadWord(m, a) == [j \in 1 .. SIZEOF_PTR |-> m[a + j - 1]]

WriteWord(m, a, w) ==
    [x \in DOMAIN m |-> IF x \in a .. (a + SIZEOF_PTR - 1) THEN w[x - a + 1] ELSE m[x]]

(***************************************************************************)
(* Tags.  src/src/value.rs lines 21-43, 67-76.                             *)
(***************************************************************************)
NUM_TAG       == 0
RUST_FUNC_TAG == 1
FUNCTION_TAG  == 2
VECTOR_TAG    == 3
NUM_TAG_2     == 4
RUST_DATA_TAG == 5
SYMBOL_TAG    == 6
PAIR_TAG      == 7

\* contents & 0b111
raw_tag(v) == v[1] % 8

tag(v) ==
    CASE raw_tag(v) = NUM_TAG       -> "Num"
      [] raw_tag(v) = RUST_FUNC_TAG -> "RustFunc"
      [] raw_tag(v) = FUNCTION_TAG  -> "Function"
      [] raw_tag(v) = VECTOR_TAG    -> "Vector"
      [] raw_tag(v) = NUM_TAG_2     -> "Num2"
      [] raw_tag(v) = RUST_DATA_TAG -> "RustData"
      [] raw_tag(v) = SYMBOL_TAG    -> "Symbol"
      [] raw_tag(v) = PAIR_TAG      -> "Pair"

\* Ptr_Val!: contents & !0b111, as an address.
Ptr_Val(v) == ToInt(v) - raw_tag(v)

\* The tagged reference to the object at (8-aligned) address a.
Tagged(a, t) == Word(a + t)

\* SIZEOF_PAIR = (3*SIZEOF_PTR + 0b111) >> 3
SIZEOF_PAIR == (3 * SIZEOF_PTR + 7) \div 8

\* header & HEADER_TAG, as the number held by the 3 most significant bits.
HeaderTagBits(h) == h[SIZEOF_PTR] \div 32

\* PAIR_HEADER = HEADER_TAG | SIZEOF_PAIR
PAIR_HEADER == [Word(SIZEOF_PAIR) EXCEPT ![SIZEOF_PTR] = 224]

\* Header of a vector-like thing: sub-kind in the 3 most significant bits
\* (0 vector, 1 record, 2 closure), element count below.
VectorLikeHeader(subkind, len) == [Word(len) EXCEPT ![SIZEOF_PTR] = subkind * 32]

\* Value::kind
kind(v) ==
    CASE tag(v) = "Pair"            -> [k |-> "Pair", ptr |-> Ptr_Val(v)]
      [] tag(v) = "Vector"          -> [k |-> "Vector", ptr |-> Ptr_Val(v)]
      [] tag(v) \in {"Num", "Num2"} -> [k |-> "Fixnum", val |-> Shr2(v)]
      [] OTHER                      -> [k |-> "unimplemented"]

(***************************************************************************)
(* Bytecode instructions.  src/src/bytecode.rs: Opcode, Bytecode.          *)
(*                                                                         *)
(* The match in verify_bytecodes names three arms PushTrue/PushFalse/      *)
(* PushNil, ArraySet/ArrayGet and Vector; the Opcode enum calls these      *)
(* LoadTrue/LoadFalse/LoadNil, SetArray/GetArray and MakeArray.  The model *)
(* uses the names of the enum.  Opcodes for which the match has no arm     *)
(* (Add .. Power, ArrayLen, Call, TailCall, Return, Closure, Set,          *)
(* StoreEnvironment, StoreGlobal) have no behaviour in the verifier and    *)
(* are not fed to it.                                                      *)
(***************************************************************************)
Operands == 0 .. MaxOperand

TwoOperandOps == {"Cons", "SetCar", "SetCdr"}
OneOperandOps == {"Car", "Cdr", "IsPair", "LoadGlobal", "LoadConstant",
                  "LoadArgument", "StoreArgument", "LoadEnvironment"}
NoOperandOps  == {"LoadTrue", "LoadFalse", "LoadNil",
                  "SetArray", "GetArray", "IsArray", "MakeArray"}

Opcode == TwoOperandOps \cup OneOperandOps \cup NoOperandOps

\* struct Bytecode { opcode, src, src2, dst }.  Operand bytes that no arm
\* and no opcode comment gives a meaning to are kept at 0.
Bytecode ==
    [opcode : TwoOperandOps, src : Operands, src2 : Operands, dst : {0}]
    \cup [opcode : OneOperandOps, src : Operands, src2 : {0}, dst : {0}]
    \cup [opcode : NoOperandOps, src : {0}, src2 : {0}, dst : {0}]

Instr(op, s, s2) == [opcode |-> op, src |-> s, src2 |-> s2, dst |-> 0]

(***************************************************************************)
(* enum BadByteCode, and the outcomes of a verification.                   *)
(* BadByteCode::EOF is used by the Vector arm although the enum does not   *)
(* declare it.                                                             *)
(***************************************************************************)
Running == [tag |-> "Running"]
OkUnit  == [tag |-> "Ok"]
NoError == [tag |-> "None"]
EOF     == [tag |-> "EOF"]

StackUnderflow(index, depth, min) ==
    [tag |-> "StackUnderflow", index |-> index, depth |-> depth, min |-> min]

EnvOutOfRange(index, required_length, actual_length) ==
    [tag |-> "EnvOutOfRange", index |-> index,
     required_length |-> required_length, actual_length |-> actual_length]

(***************************************************************************)
(* The three checking macros.  Their bodies name the macro argument $exp   *)
(* and $expr where the pattern binds $min; each macro has one argument, so *)
(* all three names denote it.  `idx` is the value of `i` (already          *)
(* incremented), `depth` the value of current_depth.                       *)
(***************************************************************************)
check_stack(min, idx, depth) ==
    IF depth <= min THEN StackUnderflow(idx - 1, depth, min) ELSE NoError

check_argument(min, idx, depth, argc) ==
    IF argc <= min THEN StackUnderflow(idx - 1, depth, min) ELSE NoError

check_env(min, idx, envlen) ==
    IF envlen <= min THEN EnvOutOfRange(idx - 1, min + 1, envlen) ELSE NoError

(***************************************************************************)
(* One arm of the match: the check it makes and the depth it leaves.       *)
(* The result is [err, depth, skip]: err is NoError or the error returned, *)
(* depth the new current_depth, skip whether the arm consumes the next     *)
(* element of the iterator.                                                *)
(***************************************************************************)
Arm(ins, idx, depth, argc, envlen) ==
    LET op  == ins.opcode
        src == ins.src
        Out(e, d, s) == [err |-> e, depth |-> IF e = NoError THEN d ELSE depth,
                         skip |-> s]
    IN  CASE op = "Cons" ->
               Out(check_stack(2, idx, depth), depth - 1, FALSE)
          [] op \in {"Car", "Cdr"} ->
               Out(check_stack(1, idx, depth), depth, FALSE)
          [] op \in {"SetCar", "SetCdr"} ->
               Out(check_stack(2, idx, depth), depth, FALSE)
          [] op = "IsPair" ->
               Out(check_stack(1, idx, depth), depth, FALSE)
          [] op \in {"LoadTrue", "LoadFalse", "LoadNil"} ->
               Out(NoError, depth + 1, FALSE)
          [] op \in {"LoadGlobal", "LoadConstant"} ->
               Out(check_env(src, idx, envlen), depth + 1, FALSE)
          [] op = "LoadArgument" ->
               Out(check_argument(src, idx, depth, argc), depth + 1, FALSE)
          [] op = "StoreArgument" ->
               Out(check_argument(src, idx, depth, argc), depth + 1, FALSE)
          [] op = "LoadEnvironment" ->
               Out(check_stack(src, idx, depth), depth + 1, FALSE)
          [] op = "SetArray" ->
               Out(check_stack(2, idx, depth), depth - 1, FALSE)
          [] op = "GetArray" ->
               Out(check_stack(2, idx, depth), depth, FALSE)
          [] op = "IsArray" ->
               Out(check_stack(1, idx, depth), depth, FALSE)
          [] op = "MakeArray" ->
               Out(NoError, depth, TRUE)

(***************************************************************************)
(* verify_bytecodes.  The slice is fed one element at a time: each         *)
(* iter.next() that yields Some is one VerifyInstruction or VerifyOperand  *)
(* step, the iter.next() that yields None is VerifyEnd or VerifyEOF.       *)
(***************************************************************************)
InitVerifyVars ==
    /\ b = << >>
    /\ argcount \in 0 .. MaxArgcount
    /\ environment_length \in 0 .. MaxEnvLen
    /\ i = 0
    /\ current_depth = 0
    /\ operand_pending = FALSE
    /\ result = Running

IdleVerifyVars ==
    /\ b = << >>
    /\ argcount = 0
    /\ environment_length = 0
    /\ i = 0
    /\ current_depth = 0
    /\ operand_pending = FALSE
    /\ result = Running

\* `while let Some(opcode) = iter.next() { i += 1; match ... }`
VerifyInstruction ==
    /\ result = Running
    /\ ~operand_pending
    /\ Len(b) < MaxLen
    /\ \E ins \in Bytecode :
          LET out == Arm(ins, i + 1, current_depth, argcount, environment_length)
          IN  /\ b' = Append(b, ins)
              /\ i' = i + 1
              /\ current_depth' = out.depth
              /\ operand_pending' = out.skip
              /\ result' = IF out.err = NoError THEN Running ELSE out.err
    /\ UNCHANGED <<argcount, environment_length>>

\* Vector arm, iter.next() is Some: the element is consumed unexamined.
VerifyOperand ==
    /\ result = Running
    /\ operand_pending
    /\ Len(b) < MaxLen
    /\ \E ins \in Bytecode : b' = Append(b, ins)
    /\ operand_pending' = FALSE
    /\ UNCHANGED <<argcount, environment_length, i, current_depth, result>>

\* Vector arm, iter.next() is None: try!(.. ok_or(BadByteCode::EOF)).
VerifyEOF ==
    /\ result = Running
    /\ operand_pending
    /\ result' = EOF
    /\ operand_pending' = FALSE
    /\ UNCHANGED <<b, argcount, environment_length, i, current_depth>>

\* The loop's iter.next() is None: the function ends without an error.
VerifyEnd ==
    /\ result = Running
    /\ ~operand_pending
    /\ result' = OkUnit
    /\ UNCHANGED <<b, argcount, environment_length, i, current_depth,
                   operand_pending>>

(***************************************************************************)
(* The accessors of impl Value.  src/src/value.rs lines 278-360.           *)
(*                                                                         *)
(* The heap of SpecValue holds one pair at PairAddr and one vector-like    *)
(* thing (a vector or a record) at VecAddr, followed by spare memory that  *)
(* stands for whatever the allocator placed after it.                      *)
(***************************************************************************)
PairAddr == SIZEOF_PTR
VecAddr  == PairAddr + SIZEOF_PAIR * SIZEOF_PTR
ValueMemTop == VecAddr + SIZEOF_PTR * (1 + MaxVecLen) + MaxIndex + SIZEOF_PTR

PairVal == Tagged(PairAddr, PAIR_TAG)
VecVal  == Tagged(VecAddr, VECTOR_TAG)

\* 64-bit two's-complement integers used as fixnum payloads: 0, 1, 2, -1,
\* the largest (2^61 - 1) and the smallest (-2^61) payload.
MaxPayload == [j \in 1 .. SIZEOF_PTR |-> IF j = SIZEOF_PTR THEN 31 ELSE 255]
MinPayload == [j \in 1 .. SIZEOF_PTR |-> IF j = SIZEOF_PTR THEN 224 ELSE 0]
MinusOne   == [j \in 1 .. SIZEOF_PTR |-> 255]

Payloads == {Word(0), Word(1), Word(2), MinusOne, MaxPayload, MinPayload}

\* A fixnum value: the payload shifted left by 2, low tag bits 00.
FixnumValue(n) == Shl2(n)

\* One value of each of the 8 tag patterns.  The fixnums above have tag Num
\* (even payload) or Num2 (odd payload); Num2Val is the word 0b100.
Num2Val     == Word(NUM_TAG_2)
RustFuncVal == Tagged(VecAddr, RUST_FUNC_TAG)
FunctionVal == Tagged(VecAddr, FUNCTION_TAG)
RustDataVal == Tagged(VecAddr, RUST_DATA_TAG)
SymbolVal   == Tagged(VecAddr, SYMBOL_TAG)

FixnumVals == {FixnumValue(n) : n \in Payloads}
SelfVals == FixnumVals \cup
            {Num2Val, RustFuncVal, FunctionVal, VecVal, RustDataVal, SymbolVal, PairVal}

\* Values stored by the mutators.
StoreVals == {FixnumValue(Word(2)), PairVal}

Indices == 0 .. MaxIndex

Ok(v)     == [tag |-> "Ok", val |-> v, msg |-> ""]
Err(msg)  == [tag |-> "Err", val |-> Word(0), msg |-> msg]
Panic     == [tag |-> "Panic", val |-> Word(0), msg |-> "not yet implemented"]
Misaligned == [tag |-> "Panic", val |-> Word(0), msg |-> "misaligned pointer dereference"]

\* Field offsets of struct Pair (repr(C)): header, car, cdr.
CarOffset == SIZEOF_PTR
CdrOffset == 2 * SIZEOF_PTR

\* Each accessor yields the set of outcomes [res, mem] the call can have.
set_car(self, other, m) ==
    LET k == kind(self)
    IN  CASE k.k = "Pair" ->
               {[res |-> Ok(Word(0)), mem |-> WriteWord(m, k.ptr + CarOffset, other)]}
          [] k.k = "unimplemented" -> {[res |-> Panic, mem |-> m]}
          [] OTHER -> {[res |-> Err("()"), mem |-> m]}

set_cdr(self, other, m) ==
    LET k == kind(self)
    IN  CASE k.k = "Pair" ->
               {[res |-> Ok(Word(0)), mem |-> WriteWord(m, k.ptr + CdrOffset, other)]}
          [] k.k = "unimplemented" -> {[res |-> Panic, mem |-> m]}
          [] OTHER -> {[res |-> Err("()"), mem |-> m]}

car(self, m) ==
    LET k == kind(self)
    IN  CASE k.k = "Pair" -> {[res |-> Ok(ReadWord(m, k.ptr + CarOffset)), mem |-> m]}
          [] k.k = "unimplemented" -> {[res |-> Panic, mem |-> m]}
          [] OTHER -> {[res |-> Err("()"), mem |-> m]}

cdr(self, m) ==
    LET k == kind(self)
    IN  CASE k.k = "Pair" -> {[res |-> Ok(ReadWord(m, k.ptr + CdrOffset)), mem |-> m]}
          [] k.k = "unimplemented" -> {[res |-> Panic, mem |-> m]}
          [] OTHER -> {[res |-> Err("()"), mem |-> m]}

\* The error of the bounds test of array_set / array_get.
BoundsError(header) ==
    Err(IF HeaderTagBits(header) = 0 THEN "index out of bounds"
                                     ELSE "can't index a non-record")

\* `(*((vec as usize + index) as *const Value)).set(other)`.  The address is
\* a byte address; when it is not a multiple of the alignment of Value the
\* dereference is undefined: a build with debug assertions panics, a build
\* without them performs the store.
array_set(self, index, other, m) ==
    LET k == kind(self)
    IN  CASE k.k = "Vector" ->
               LET header == ReadWord(m, k.ptr)
                   addr   == k.ptr + index
               IN  IF WordGE(header, index)
                   THEN {[res |-> BoundsError(header), mem |-> m]}
                   ELSE {[res |-> Ok(Word(0)), mem |-> WriteWord(m, addr, other)]}
                        \cup (IF addr % SIZEOF_PTR = 0 THEN {}
                              ELSE {[res |-> Misaligned, mem |-> m]})
          [] k.k = "unimplemented" -> {[res |-> Panic, mem |-> m]}
          [] OTHER -> {[res |-> Err("can't index a non-vector"), mem |-> m]}

\* array_get returns the address, it does not dereference it.
array_get(self, index, m) ==
    LET k == kind(self)
    IN  CASE k.k = "Vector" ->
               LET header == ReadWord(m, k.ptr)
               IN  IF WordGE(header, index)
                   THEN {[res |-> BoundsError(header), mem |-> m]}
                   ELSE {[res |-> Ok(Word(k.ptr + index)), mem |-> m]}
          [] k.k = "unimplemented" -> {[res |-> Panic, mem |-> m]}
          [] OTHER -> {[res |-> Err("can't index a non-vector"), mem |-> m]}

as_fixnum(self, m) ==
    LET k == kind(self)
    IN  CASE k.k = "Fixnum" -> {[res |-> Ok(k.val), mem |-> m]}
          [] k.k = "unimplemented" -> {[res |-> Panic, mem |-> m]}
          [] OTHER -> {[res |-> Err("not a fixnum"), mem |-> m]}

\* The record kept of a call: the operation, its arguments and its result.
Call(op, self, index, other, res) ==
    [op |-> op, self |-> self, index |-> index, other |-> other,
     tag |-> res.tag, val |-> res.val, msg |-> res.msg]

NoCall == Call("none", Word(0), 0, Word(0), Ok(Word(0)))

InitialSlot(j) == FixnumValue(Word(j))

\* The memory holding the pair (1 . 2) and a vector-like thing of `len`
\* elements with sub-kind `subkind`.
RECURSIVE WriteSlots(_, _)
WriteSlots(m, n) ==
    IF n = 0 THEN m
    ELSE WriteWord(WriteSlots(m, n - 1), VecAddr + n * SIZEOF_PTR, InitialSlot(n))

ValueMem(subkind, len) ==
    LET m0 == [x \in 0 .. (ValueMemTop - 1) |-> 0]
        m1 == WriteWord(m0, PairAddr, PAIR_HEADER)
        m2 == WriteWord(m1, PairAddr + CarOffset, FixnumValue(Word(1)))
        m3 == WriteWord(m2, PairAddr + CdrOffset, FixnumValue(Word(2)))
        m4 == WriteWord(m3, VecAddr, VectorLikeHeader(subkind, len))
    IN  WriteSlots(m4, len)

InitValueVars ==
    /\ vec_len \in 1 .. MaxVecLen
    /\ \E subkind \in {0, 1} : mem = ValueMem(subkind, vec_len)
    /\ nwrites = 0
    /\ ret = NoCall

IdleValueVars ==
    /\ vec_len = 0
    /\ nwrites = 0
    /\ ret = NoCall

Mutator(op, self, index, other, outcomes) ==
    /\ nwrites < MaxWrites
    /\ \E o \in outcomes :
          /\ ret' = Call(op, self, index, other, o.res)
          /\ mem' = o.mem
    /\ nwrites' = nwrites + 1
    /\ UNCHANGED vec_len

Reader(op, self, index, outcomes) ==
    /\ \E o \in outcomes :
          /\ ret' = Call(op, self, index, Word(0), o.res)
          /\ mem' = o.mem
    /\ UNCHANGED <<vec_len, nwrites>>

SetCar == \E self \in SelfVals, other \in StoreVals :
             Mutator("set_car", self, 0, other, set_car(self, other, mem))

SetCdr == \E self \in SelfVals, other \in StoreVals :
             Mutator("set_cdr", self, 0, other, set_cdr(self, other, mem))

Car == \E self \in SelfVals : Reader("car", self, 0, car(self, mem))

Cdr == \E self \in SelfVals : Reader("cdr", self, 0, cdr(self, mem))

ArraySet == \E self \in SelfVals, index \in Indices, other \in StoreVals :
               Mutator("array_set", self, index, other,
                       array_set(self, index, other, mem))

ArrayGet == \E self \in SelfVals, index \in Indices :
               Reader("array_get", self, index, array_get(self, index, mem))

AsFixnum == \E self \in SelfVals : Reader("as_fixnum", self, 0, as_fixnum(self, mem))

(***************************************************************************)
(* allocate_bytecode.  src/src/bytecode.rs lines 9-18, 149-164.            *)
(*                                                                         *)
(* The heap of SpecAlloc holds two empty constants vectors, followed by    *)
(* free memory from which alloc_raw hands out objects.                     *)
(***************************************************************************)
Uninit == 0 - 1

\* size_of!(BCO): header, bytecode_length, constants_vector.
SizeOfBCO == 3 * SIZEOF_PTR

\* Field offsets of struct BCO.
BytecodeLengthOffset  == SIZEOF_PTR
ConstantsVectorOffset == 2 * SIZEOF_PTR

\* The first argument of alloc_raw: the size of the object in words.
AllocWords(len) == (SizeOfBCO + len + (SIZEOF_PTR - 1)) \div SIZEOF_PTR

ConstsA   == SIZEOF_PTR
ConstsB   == 2 * SIZEOF_PTR
HeapBase  == 3 * SIZEOF_PTR
AllocMemTop == HeapBase + MaxAllocs * AllocWords(MaxCode) * SIZEOF_PTR

ConstVals == {Tagged(ConstsA, VECTOR_TAG), Tagged(ConstsB, VECTOR_TAG)}

\* The code slices passed in: every length up to MaxCode, with two contents.
CodeSlice(p, len) == [k \in 1 .. len |-> (p + k) % 256]
CodeSlices == {CodeSlice(p, len) : p \in {16, 160}, len \in 0 .. MaxCode}

AllocMem ==
    LET m0 == [x \in 0 .. (AllocMemTop - 1) |-> IF x < HeapBase THEN 0 ELSE Uninit]
        m1 == WriteWord(m0, ConstsA, VectorLikeHeader(0, 0))
    IN  WriteWord(m1, ConstsB, VectorLikeHeader(0, 0))

\* heap.alloc_raw(words, HeaderTag::Bytecode): the object is taken from the
\* free memory and its header word records its size.  The value of the
\* discriminator that the header carries besides is not modelled.
alloc_raw(m, fr, words) ==
    [val |-> fr, mem |-> WriteWord(m, fr, Word(words)),
     free |-> fr + words * SIZEOF_PTR]

\* ptr::copy_nonoverlapping(src, dst, count) on bytes.
copy_nonoverlapping(m, src, dst, count) ==
    [x \in DOMAIN m |-> IF x \in dst .. (dst + count - 1) THEN src[x - dst + 1] ELSE m[x]]

\* `heap.stack.pop().unwrap()` followed by `heap.stack.push(v)`.
pop_push(stk, v) == Append(SubSeq(stk, 1, Len(stk) - 1), v)

\* The code bytes copied right after the byte-length word, over the
\* constants_vector field.
store_code_over_constants(m, val, obj) ==
    copy_nonoverlapping(m, obj, val + ConstantsVectorOffset, Len(obj))

\* The copy of the code bytes to `(val as *mut u8).offset(size_of!(BCO))`.
store_code(m, val, obj) ==
    copy_nonoverlapping(m, obj, val + SizeOfBCO, Len(obj))

NoAlloc == [tag |-> "None", obj |-> << >>, val |-> 0, words |-> 0,
            consts |-> Word(0)]

InitAllocVars ==
    /\ stack = << >>
    /\ free = HeapBase
    /\ call = NoAlloc
    /\ mem = AllocMem

IdleAllocVars ==
    /\ stack = << >>
    /\ free = 0
    /\ call = NoAlloc

\* heap.stack.push(v) by the caller: a constants vector is rooted.
PushConstants ==
    /\ Len(stack) < MaxStack
    /\ \E v \in ConstVals : stack' = Append(stack, v)
    /\ UNCHANGED <<mem, free, call>>

\* allocate_bytecode(obj, heap), the value stack not empty.
AllocateBytecode ==
    /\ stack # << >>
    /\ \E obj \in CodeSlices :
          LET a   == alloc_raw(mem, free, AllocWords(Len(obj)))
              val == a.val
              consts_vector == stack[Len(stack)]
              m1 == WriteWord(a.mem, val + BytecodeLengthOffset, Word(Len(obj)))
              m2 == WriteWord(m1, val + ConstantsVectorOffset, consts_vector)
          IN  /\ a.free <= AllocMemTop
              /\ stack' = pop_push(stack, Tagged(val, RUST_DATA_TAG))
              /\ mem' = store_code(m2, val, obj)
              /\ free' = a.free
              /\ call' = [tag |-> "Ok", obj |-> obj, val |-> val,
                          words |-> AllocWords(Len(obj)),
                          consts |-> consts_vector]

\* allocate_bytecode(obj, heap), the value stack empty: pop().unwrap()
\* panics after the object was allocated.
AllocateBytecodeEmptyStack ==
    \E obj \in CodeSlices :
       LET words == AllocWords(Len(obj))
           a     == alloc_raw(mem, free, words)
       IN  /\ stack = << >>
           /\ a.free <= AllocMemTop
           /\ stack' = stack
           /\ mem' = a.mem
           /\ free' = a.free
           /\ call' = [tag |-> "Panic", obj |-> obj, val |-> a.val, words |-> words,
                       consts |-> Word(0)]

(***************************************************************************)
(* The specifications.                                                     *)
(***************************************************************************)
InitVerify == InitVerifyVars /\ IdleValueVars /\ IdleAllocVars /\ mem = << >>

NextVerify ==
    \/ VerifyInstruction /\ UNCHANGED <<mem, value_vars, alloc_vars>>
    \/ VerifyOperand /\ UNCHANGED <<mem, value_vars, alloc_vars>>
    \/ VerifyEOF /\ UNCHANGED <<mem, value_vars, alloc_vars>>
    \/ VerifyEnd /\ UNCHANGED <<mem, value_vars, alloc_vars>>

SpecVerify == InitVerify /\ [][NextVerify]_vars

InitValue == IdleVerifyVars /\ InitValueVars /\ IdleAllocVars

NextValue ==
    \/ SetCar /\ UNCHANGED <<verify_vars, alloc_vars>>
    \/ SetCdr /\ UNCHANGED <<verify_vars, alloc_vars>>
    \/ Car /\ UNCHANGED <<verify_vars, alloc_vars>>
    \/ Cdr /\ UNCHANGED <<verify_vars, alloc_vars>>
    \/ ArraySet /\ UNCHANGED <<verify_vars, alloc_vars>>
    \/ ArrayGet /\ UNCHANGED <<verify_vars, alloc_vars>>
    \/ AsFixnum /\ UNCHANGED <<verify_vars, alloc_vars>>

SpecValue == InitValue /\ [][NextValue]_vars

InitAlloc == IdleVerifyVars /\ IdleValueVars /\ InitAllocVars

NextAlloc ==
    \/ PushConstants /\ UNCHANGED <<verify_vars, value_vars>>
    \/ AllocateBytecode /\ UNCHANGED <<verify_vars, value_vars>>
    \/ AllocateBytecodeEmptyStack /\ UNCHANGED <<verify_vars, value_vars>>

SpecAlloc == InitAlloc /\ [][NextAlloc]_vars

(***************************************************************************)
(* Properties of verify_bytecodes (checked under SpecVerify).              *)
(***************************************************************************)
\* A step in which the loop body examines the instruction LastInstr, found
\* at 0-based position Position of the slice.
InstrStep == result = Running /\ ~operand_pending /\ Len(b') = Len(b) + 1
LastInstr == b'[Len(b')]
Position  == Len(b)

FixedLoads == {"LoadTrue", "LoadFalse", "LoadNil"}

\* C1: an instruction reading the stack at depth d = src (Car, Cdr, IsPair)
\* passes iff d < current_depth, and otherwise verification fails with
\* StackUnderflow{index, depth: current_depth, min: d + 1}.
C1_StackCheck ==
    [][(InstrStep /\ LastInstr.opcode \in {"Car", "Cdr", "IsPair"}) =>
          IF LastInstr.src < current_depth
          THEN result' = Running /\ current_depth' = current_depth
          ELSE result' = StackUnderflow(Position, current_depth, LastInstr.src + 1)]_vars

\* C2: from depth 0, n >= 2 fixed-immediate loads followed by one Cons
\* addressing the two topmost slots are accepted and leave current_depth = n - 1
\* (in particular [LoadTrue, LoadNil, Cons] leaves depth 1).
LoadsThenCons(s) ==
    /\ Len(s) >= 3
    /\ \A k \in 1 .. (Len(s) - 1) : s[k].opcode \in FixedLoads
    /\ s[Len(s)].opcode = "Cons"
    /\ {s[Len(s)].src, s[Len(s)].src2} = {0, 1}

C2_LoadsThenConsAccepted ==
    LoadsThenCons(b) =>
        /\ result \in {Running, OkUnit}
        /\ current_depth = Len(b) - 2

\* C3: LoadEnvironment with src = e passes iff e < environment_length,
\* whatever current_depth is, and otherwise verification fails with
\* EnvOutOfRange{index, required_length: e + 1, actual_length: environment_length}.
C3_EnvCheck ==
    [][(InstrStep /\ LastInstr.opcode = "LoadEnvironment") =>
          IF LastInstr.src < environment_length
          THEN result' = Running
          ELSE result' = EnvOutOfRange(Position, LastInstr.src + 1,
                                       environment_length)]_vars

\* C4: LoadArgument / StoreArgument with src = a pass iff a < argcount, and
\* otherwise verification fails with an argument-range error that is not a
\* StackUnderflow and carries (index, required = a + 1, actual = argcount).
ArgOutOfRange(index, required, actual) ==
    [tag |-> "ArgOutOfRange", index |-> index, required |-> required,
     actual |-> actual]

C4_ArgumentCheck ==
    [][(InstrStep /\ LastInstr.opcode \in {"LoadArgument", "StoreArgument"}) =>
          IF LastInstr.src < argcount
          THEN result' = Running
          ELSE result' = ArgOutOfRange(Position, LastInstr.src + 1, argcount)]_vars

\* The checks applicable to the operand classes of an instruction: stack
\* indices below the depth, argument indices below argcount, environment
\* indices below environment_length.
OperandsInRange(ins, depth, argc, envlen) ==
    /\ ins.opcode \in {"Car", "Cdr", "IsPair"} => ins.src < depth
    /\ ins.opcode \in {"Cons", "SetCar", "SetCdr"} =>
          ins.src < depth /\ ins.src2 < depth
    /\ ins.opcode \in {"LoadArgument", "StoreArgument"} => ins.src < argc
    /\ ins.opcode = "LoadEnvironment" => ins.src < envlen

\* C5: verify once, trust always: an instruction that the verifier does not
\* reject passes every check applicable to its operand classes.
C5_AcceptedIsSafe ==
    [][(InstrStep /\ result' = Running) =>
          OperandsInRange(LastInstr, current_depth, argcount,
                          environment_length)]_vars

\* The net stack effect the opcode table gives to an opcode: +1 for the
\* loads, -1 for Cons, 0 for the read-only and in-place opcodes.
NetEffect(op) ==
    CASE op \in {"LoadConstant", "LoadEnvironment", "LoadArgument", "LoadGlobal",
                 "LoadFalse", "LoadTrue", "LoadNil"} -> 1
      [] op = "Cons" -> 0 - 1
      [] op \in {"Car", "Cdr", "IsPair", "SetCar", "SetCdr", "StoreEnvironment",
                 "StoreArgument", "StoreGlobal"} -> 0

TableOps == {"LoadConstant", "LoadEnvironment", "LoadArgument", "LoadGlobal",
             "LoadFalse", "LoadTrue", "LoadNil", "Cons", "Car", "Cdr", "IsPair",
             "SetCar", "SetCdr", "StoreEnvironment", "StoreArgument",
             "StoreGlobal"}

\* C11: an instruction that passes its checks changes current_depth by
\* exactly its net stack effect (+1 for every load, -1 for Cons, 0 for Car,
\* Cdr, IsPair, SetCar, SetCdr and the stores), and current_depth never goes
\* below 0.
C11_NetStackEffect ==
    [][(InstrStep /\ result' = Running /\ LastInstr.opcode \in TableOps) =>
          /\ current_depth' = current_depth + NetEffect(LastInstr.opcode)
          /\ current_depth' >= 0]_vars

(***************************************************************************)
(* Properties of the accessors (checked under SpecValue).                  *)
(***************************************************************************)
\* The header of the vector-like thing still records vec_len elements.
HeaderIntact(m) ==
    \E subkind \in {0, 1} : ReadWord(m, VecAddr) = VectorLikeHeader(subkind, vec_len)

\* C6: on a vector-like thing of recorded length L >= 1, array_get(i) and
\* array_set(i, v) succeed iff i < L, and fail with IndexOutOfRange, leaving
\* the memory unchanged, for i >= L, for a vector and for a record alike.
C6_IndexBounds ==
    [][(ret'.op \in {"array_get", "array_set"} /\ ret'.self = VecVal
          /\ HeaderIntact(mem)) =>
          IF ret'.index < vec_len
          THEN ret'.tag = "Ok"
          ELSE ret'.tag = "Err" /\ ret'.msg = "index out of bounds" /\ mem' = mem]_vars

\* C7: car, cdr, set_car and set_cdr on a value of any non-pair tag return
\* an error, as_fixnum on a value of any tag but the fixnum tag returns the
\* not-a-number error; none of these calls panics or changes the heap.
C7_ErrorsAreValues ==
    [][/\ (ret'.op \in {"car", "cdr", "set_car", "set_cdr"}
              /\ tag(ret'.self) # "Pair") =>
             (ret'.tag = "Err" /\ mem' = mem)
       /\ (ret'.op = "as_fixnum" /\ tag(ret'.self) # "Num") =>
             (ret'.tag = "Err" /\ ret'.msg = "not a fixnum" /\ mem' = mem)]_vars

\* The integer denoted by a word read as usize, and by a word read as a
\* two's-complement signed integer: a sign and a magnitude.
Negate(w) ==
    [j \in 1 .. SIZEOF_PTR |->
        (255 - w[j] + (IF \A k \in 1 .. (j - 1) : w[k] = 0 THEN 1 ELSE 0)) % 256]
UnsignedValue(w) == [neg |-> FALSE, mag |-> w]
SignedValue(w) ==
    IF w[SIZEOF_PTR] >= 128 THEN [neg |-> TRUE, mag |-> Negate(w)]
                            ELSE [neg |-> FALSE, mag |-> w]

\* C8: fixnum round trip: the value built from a signed payload n (n shifted
\* left by 2, low bits 00) decodes through as_fixnum to exactly n.
C8_FixnumRoundTrip ==
    \A n \in Payloads :
        (ret.op = "as_fixnum" /\ ret.self = FixnumValue(n)) =>
            (ret.tag = "Ok" /\ UnsignedValue(ret.val) = SignedValue(n))

(***************************************************************************)
(* Properties of allocate_bytecode (checked under SpecAlloc).              *)
(***************************************************************************)
\* A step that is a call of allocate_bytecode which returns.
AllocStep == free' # free /\ call'.tag = "Ok"

\* C9: allocate_bytecode with K bytes of code and the constants vector on
\* top of the stack records bytecode_length = K, stores the code bytes
\* unchanged after the BCO structure, and replaces the top of the stack by
\* the tagged reference to the new object, the stack below it unchanged.
C9_AllocateBytecode ==
    [][AllocStep =>
          LET obj == call'.obj
              val == call'.val
          IN  /\ ReadWord(mem', val + BytecodeLengthOffset) = Word(Len(obj))
              /\ \A k \in 1 .. Len(obj) : mem'[val + SizeOfBCO + k - 1] = obj[k]
              /\ Len(stack') = Len(stack)
              /\ stack'[Len(stack')] = Tagged(val, RUST_DATA_TAG)
              /\ stack'[Len(stack')] # stack[Len(stack)]
              /\ \A j \in 1 .. (Len(stack) - 1) : stack'[j] = stack[j]]_vars

\* A call returned for a code slice longer than a word, with a rooted value
\* below the constants vector.
C9_Witness ==
    /\ call.tag = "Ok"
    /\ Len(call.obj) > SIZEOF_PTR
    /\ Len(stack) >= 2
    /\ stack[Len(stack)] = Tagged(call.val, RUST_DATA_TAG)

\* The code region of K bytes padded to whole words.
PaddedLen(len) == ((len + SIZEOF_PTR - 1) \div SIZEOF_PTR) * SIZEOF_PTR

\* C10: layout of the object made by allocate_bytecode: header word, byte
\* length word, the code bytes right after the byte-length word, padded to a
\* whole word, then one word with the constants-vector reference; all inside
\* the words requested from alloc_raw.
C10_Layout ==
    call.tag = "Ok" =>
        LET obj == call.obj
            val == call.val
            code == val + 2 * SIZEOF_PTR
        IN  /\ ReadWord(mem, val + SIZEOF_PTR) = Word(Len(obj))
            /\ \A k \in 1 .. Len(obj) : mem[code + k - 1] = obj[k]
            /\ ReadWord(mem, code + PaddedLen(Len(obj))) = call.consts
            /\ code + PaddedLen(Len(obj)) + SIZEOF_PTR <= val + call.words * SIZEOF_PTR

====
